---- MODULE Spec2Model ----
(***************************************************************************)
(* ECDSA over a short Weierstrass curve (RenKoya1/ECDSA).                  *)
(*                                                                         *)
(* Three layers, all pure functions of their explicit inputs:              *)
(*   FiniteField   (src/src/utils.rs 112-150)                              *)
(*   EllipticCurve (src/src/utils.rs   8-110)                              *)
(*   ECDSA         (src/src/ecdsa.rs   6- 73)                              *)
(*                                                                         *)
(* Each function is an operator computed the way the code computes it.     *)
(* A call is an action: it draws its inputs from bounded sets and records  *)
(* the call (op, args) and its outcome (ret).  A Rust panic (assert!,      *)
(* panic!) is the outcome Panic.                                           *)
(***************************************************************************)
EXTENDS Integers, Sequences, FiniteSets

VARIABLES
    ec,     \* the EllipticCurve value [a, b, p] the calls borrow
    op,     \* name of the last call
    args,   \* its inputs
    ret     \* its outcome: a Point, Ok(value), or Panic

vars == <<ec, op, args, ret>>

----------------------------------------------------------------------------
(* Bounds of the model *)

\* largest modulus handed to a FiniteField call
MaxModulus == 19
\* largest prime modulus of the family of small curves
MaxPrime == 10
\* largest scalar handed to scalar_mul
MaxScalar == 45
\* highest bit position flipped when a signature is tampered with
MaxBit == 4

(* Parameters of the toy curve used by the tests *)
ToyA == 2
ToyB == 2
ToyP == 17
ToyGx == 5
ToyGy == 1
ToyQ == 19

----------------------------------------------------------------------------
(* Values *)

Coor(x, y) == [tag |-> "Coor", x |-> x, y |-> y]
Identity == [tag |-> "Identity"]

\* a fatal termination of the call (assert! / panic!)
Panic == [tag |-> "Panic"]
\* a normal return of a value that is not a Point
Ok(v) == [tag |-> "Ok", val |-> v]

IsPrime(n) == n >= 2 /\ \A k \in 2..(n - 1) : n % k /= 0

----------------------------------------------------------------------------
(* num_bigint::BigUint helpers *)

RECURSIVE modpow(_, _, _)
\* BigUint::modpow: base^exp mod m, by squaring
modpow(base, exp, m) ==
    IF exp = 0 THEN 1 % m
    ELSE LET h == modpow(base, exp \div 2, m)
             sq == (h * h) % m
         IN  IF exp % 2 = 1 THEN (sq * (base % m)) % m ELSE sq

RECURSIVE bits(_)
\* BigUint::bits: the bit length of d (0 for 0)
bits(d) == IF d = 0 THEN 0 ELSE 1 + bits(d \div 2)

RECURSIVE Pow2(_)
Pow2(i) == IF i = 0 THEN 1 ELSE 2 * Pow2(i - 1)

\* BigUint::bit: whether bit i of d is set
bit(d, i) == (d \div Pow2(i)) % 2 = 1

----------------------------------------------------------------------------
(* FiniteField *)

FiniteField_add(c, d, p) == modpow(c + d, 1, p)

mult(c, d, p) == modpow(c * d, 1, p)

\* the assertion of inv_add: a call with c >= p panics
inv_add_assert(c, p) == c < p

\* inv_add where its assertion holds
inv_add(c, p) == modpow(p - c, 1, p)

substract(c, d, p) == FiniteField_add(c, inv_add(d, p), p)

\* a variant of inv_mult with the exponent off by one
inv_mult_exp_p_minus_1(c, p) == modpow(c, p - 1, p)

inv_mult(c, p) == modpow(c, p - 2, p)

divide(c, d, p) == mult(c, inv_mult(d, p), p)

----------------------------------------------------------------------------
(* EllipticCurve *)

\* y^2 = x^3 + a*x + b (mod p); Identity is on every curve
is_on_curve(E, pt) ==
    IF pt.tag = "Coor"
    THEN LET y2 == modpow(pt.y, 2, E.p)
             x3 == modpow(pt.x, 3, E.p)
             ax == mult(E.a, pt.x, E.p)
         IN  y2 = FiniteField_add(FiniteField_add(x3, ax, E.p), E.b, E.p)
    ELSE TRUE

\* a variant of add_chord that ends y3 with y2 instead of y1
add_chord_minus_y2(E, x1, y1, x2, y2) ==
    LET s  == divide(substract(y2, y1, E.p), substract(x2, x1, E.p), E.p)
        s2 == modpow(s, 2, E.p)
        x3 == substract(substract(s2, x1, E.p), x2, E.p)
        y3 == substract(mult(s, substract(x1, x3, E.p), E.p), y2, E.p)
    IN  Coor(x3, y3)

\* the chord rule of add, for two Coor operands that are not inverses of
\* each other; the substract calls assert that what they subtract is < p
add_chord(E, x1, y1, x2, y2) ==
    IF ~(inv_add_assert(y1, E.p) /\ inv_add_assert(x1, E.p)
         /\ inv_add_assert(x2, E.p))
    THEN Panic
    ELSE LET y2my1 == substract(y2, y1, E.p)
             x2mx1 == substract(x2, x1, E.p)
             s     == divide(y2my1, x2mx1, E.p)
             s2    == modpow(s, 2, E.p)
             x3    == substract(substract(s2, x1, E.p), x2, E.p)
             y3    == substract(mult(s, substract(x1, x3, E.p), E.p), y1, E.p)
         IN  Coor(x3, y3)

\* a variant of add without the case of two inverse points
add_without_inverse_case(E, c, d) ==
    IF ~is_on_curve(E, c) \/ ~is_on_curve(E, d) \/ c = d THEN Panic
    ELSE IF c.tag = "Identity" THEN d
    ELSE IF d.tag = "Identity" THEN c
    ELSE add_chord(E, c.x, c.y, d.x, d.y)

add(E, c, d) ==
    IF ~is_on_curve(E, c) \/ ~is_on_curve(E, d) \/ c = d THEN Panic
    ELSE IF c.tag = "Identity" THEN d
    ELSE IF d.tag = "Identity" THEN c
    ELSE LET y1plusy2 == FiniteField_add(c.y, d.y, E.p)
         IN  IF c.x = d.x /\ y1plusy2 = 0 THEN Identity
             ELSE add_chord(E, c.x, c.y, d.x, d.y)

\* a variant of double_tangent that guards y = 0 and returns Identity
double_tangent_guarded(E, x, y) ==
    IF y % E.p = 0 THEN Identity
    ELSE LET s  == divide(FiniteField_add(mult(3, modpow(x, 2, E.p), E.p),
                                          E.a, E.p),
                          mult(y, 2, E.p), E.p)
             x3 == substract(modpow(s, 2, E.p), mult(x, 2, E.p), E.p)
             y3 == substract(mult(s, substract(x, x3, E.p), E.p), y, E.p)
         IN  Coor(x3, y3)

\* the tangent rule of double for a Coor operand
double_tangent(E, x, y) ==
    LET x2  == modpow(x, 2, E.p)
        s_u == FiniteField_add(mult(3, x2, E.p), E.a, E.p)
        s_b == mult(y, 2, E.p)
        s   == divide(s_u, s_b, E.p)
        s2  == modpow(s, 2, E.p)
        x3  == substract(s2, mult(x, 2, E.p), E.p)
        y3  == substract(mult(s, substract(x, x3, E.p), E.p), y, E.p)
    IN  IF ~inv_add_assert(y, E.p) THEN Panic ELSE Coor(x3, y3)

double(E, pt) ==
    IF ~is_on_curve(E, pt) THEN Panic
    ELSE IF pt.tag = "Identity" THEN Identity
    ELSE double_tangent(E, pt.x, pt.y)

RECURSIVE scalar_mul_loop(_, _, _, _, _)
\* the for loop of scalar_mul with n iterations left (i = n-1 down to 0) and
\* accumulator t; a panic of double or add ends the call
scalar_mul_loop(E, pt, d, n, t) ==
    IF n = 0 THEN t
    ELSE LET t1 == double(E, t)
         IN  IF t1 = Panic THEN Panic
             ELSE LET t2 == IF bit(d, n - 1) THEN add(E, t1, pt) ELSE t1
                  IN  IF t2 = Panic THEN Panic
                      ELSE scalar_mul_loop(E, pt, d, n - 1, t2)

\* double and add, from the bit below the top bit of d down to bit 0
scalar_mul(E, pt, d) ==
    IF d = 0 THEN Identity
    ELSE scalar_mul_loop(E, pt, d, bits(d) - 1, pt)

----------------------------------------------------------------------------
(* The ECDSA value of the tests *)

\* the curve of the tests, y^2 = x^3 + 2x + 2 mod 17
ToyCurve == [a |-> ToyA, b |-> ToyB, p |-> ToyP]

\* the ECDSA value { ec, g, q } of test_sign_verify
ECDSA == [ec |-> ToyCurve, g |-> Coor(ToyGx, ToyGy), q |-> ToyQ]

----------------------------------------------------------------------------
(* Input sets *)

Primes == {n \in 2..MaxPrime : IsPrime(n)}

\* the curves of the model: every (a, b) over every small prime, and the
\* curve of the tests
Curves ==
    UNION {{[a |-> a, b |-> b, p |-> p] : a \in 0..(p - 1), b \in 0..(p - 1)} :
             p \in Primes}
    \cup {ToyCurve}

\* the points of E with coordinates in [0, p), Identity included
Points(E) ==
    {Identity} \cup
    {pt \in {Coor(x, y) : x \in 0..(E.p - 1), y \in 0..(E.p - 1)} :
        is_on_curve(E, pt)}

\* Points, tabulated once per curve
PointsOf == [E \in Curves |-> Points(E)]

\* self.ec.scalar_mul(pt, d) as ECDSA calls it.  The calls of the ECDSA
\* value repeat the same few multiples, so they are computed once, by
\* scalar_mul, and looked up afterwards.
scalar_mul_memo ==
    [pt \in PointsOf[ToyCurve], d \in 0..(ToyQ - 1) |->
        scalar_mul(ToyCurve, pt, d)]

ec_scalar_mul(self, pt, d) ==
    IF self.ec = ToyCurve /\ pt \in PointsOf[ToyCurve] /\ d \in 0..(ToyQ - 1)
    THEN scalar_mul_memo[pt, d]
    ELSE scalar_mul(self.ec, pt, d)

generate_pub_key(self, priv_key) == ec_scalar_mul(self, self.g, priv_key)

\* s of sign, once r is known
sign_s(self, r, hash, priv_key, k) ==
    LET s1    == mult(r, priv_key, self.q)
        s2    == FiniteField_add(s1, hash, self.q)
        k_inv == inv_add(k, self.q)
    IN  mult(s2, k_inv, self.q)

sign(self, hash, priv_key, k) ==
    IF ~(hash < self.q) \/ ~(priv_key < self.q) \/ ~(k < self.q) THEN Panic
    ELSE LET r_point == ec_scalar_mul(self, self.g, k)
         IN  IF r_point.tag = "Coor"
             THEN Ok(<<r_point.x, sign_s(self, r_point.x, hash, priv_key, k)>>)
             ELSE Panic

\* a variant of verify_result that compares the y-coordinate with r
verify_result_compares_y(p, r) ==
    IF p.tag = "Coor" THEN Ok(p.y = r) ELSE Panic

\* a variant of verify_result that rejects the signature when p is Identity
verify_result_rejects_identity(p, r) ==
    IF p.tag = "Coor" THEN Ok(p.x = r) ELSE Ok(FALSE)

\* the end of verify, from the sum p of the two scalar multiples
verify_result(p, r) ==
    IF p.tag = "Coor" THEN Ok(p.x = r) ELSE Panic

verify(self, hash, pub_key, signature) ==
    IF ~(hash < self.q) THEN Panic
    ELSE LET r     == signature[1]
             s     == signature[2]
             s_inv == inv_mult(s, self.q)
             u1    == mult(s_inv, hash, self.q)
             u2    == mult(s_inv, r, self.q)
             u1a   == ec_scalar_mul(self, self.g, u1)
             u1b   == ec_scalar_mul(self, pub_key, u2)
         IN  IF u1a = Panic \/ u1b = Panic THEN Panic
             ELSE verify_result(add(self.ec, u1a, u1b), r)

\* v with bit i flipped
FlipBit(v, i) == IF bit(v, i) THEN v - Pow2(i) ELSE v + Pow2(i)

----------------------------------------------------------------------------
(* The state machine: the value is constructed, then called *)

Init ==
    /\ ec \in Curves
    /\ op = "new"
    /\ args = <<>>
    /\ ret = Identity

\* a call on the freshly constructed value: the functions are pure, so
\* the outcome of a call depends on its inputs alone
Return(name, in, out) ==
    /\ op' = name
    /\ args' = in
    /\ ret' = out
    /\ UNCHANGED ec

(* FiniteField calls: operands c, d and modulus p *)

Call_FiniteField_add ==
    /\ op = "new"
    /\ \E p \in 2..MaxModulus : \E c \in 0..p, d \in 0..p :
          Return("FiniteField::add", [c |-> c, d |-> d, p |-> p],
                 Ok(FiniteField_add(c, d, p)))

Call_mult ==
    /\ op = "new"
    /\ \E p \in 2..MaxModulus : \E c \in 0..p, d \in 0..p :
          Return("mult", [c |-> c, d |-> d, p |-> p], Ok(mult(c, d, p)))

Call_inv_add ==
    /\ op = "new"
    /\ \E p \in 2..MaxModulus : \E c \in 0..p :
          Return("inv_add", [c |-> c, p |-> p],
                 IF inv_add_assert(c, p) THEN Ok(inv_add(c, p)) ELSE Panic)

Call_substract ==
    /\ op = "new"
    /\ \E p \in 2..MaxModulus : \E c \in 0..p, d \in 0..p :
          Return("substract", [c |-> c, d |-> d, p |-> p],
                 IF inv_add_assert(d, p) THEN Ok(substract(c, d, p))
                 ELSE Panic)

Call_inv_mult ==
    /\ op = "new"
    /\ \E p \in 2..MaxModulus : \E c \in 0..p :
          Return("inv_mult", [c |-> c, p |-> p], Ok(inv_mult(c, p)))

Call_divide ==
    /\ op = "new"
    /\ \E p \in 2..MaxModulus : \E c \in 0..p, d \in 0..p :
          Return("divide", [c |-> c, d |-> d, p |-> p], Ok(divide(c, d, p)))

NextField ==
    \/ Call_FiniteField_add
    \/ Call_mult
    \/ Call_inv_add
    \/ Call_substract
    \/ Call_inv_mult
    \/ Call_divide

\* the field calls do not read the curve: one curve is enough
InitField == Init /\ ec = ToyCurve

SpecField == InitField /\ [][NextField]_vars

(* EllipticCurve calls on the constructed curve *)

Call_is_on_curve ==
    /\ op = "new"
    /\ \E pt \in PointsOf[ec] :
          Return("is_on_curve", [p |-> pt], Ok(is_on_curve(ec, pt)))

Call_add ==
    /\ op = "new"
    /\ \E c \in PointsOf[ec], d \in PointsOf[ec] :
          Return("add", [c |-> c, d |-> d], add(ec, c, d))

Call_double ==
    /\ op = "new"
    /\ \E pt \in PointsOf[ec] :
          Return("double", [p |-> pt], double(ec, pt))

Call_scalar_mul ==
    /\ op = "new"
    /\ \E pt \in PointsOf[ec], d \in 0..MaxScalar :
          Return("scalar_mul", [p |-> pt, d |-> d], scalar_mul(ec, pt, d))

NextCurve ==
    \/ Call_is_on_curve
    \/ Call_add
    \/ Call_double
    \/ Call_scalar_mul

SpecCurve == Init /\ [][NextCurve]_vars

(* ECDSA calls on the ECDSA value of the tests *)

\* the ECDSA value is built on the curve of the tests
InitECDSA == Init /\ ec = ECDSA.ec

Call_generate_pub_key ==
    /\ op = "new"
    /\ ec = ECDSA.ec
    /\ \E priv_key \in 0..(ECDSA.q - 1) :
          Return("generate_pub_key", [priv_key |-> priv_key],
                 generate_pub_key(ECDSA, priv_key))

Call_sign ==
    /\ op = "new"
    /\ ec = ECDSA.ec
    /\ \E hash \in 0..ECDSA.q, priv_key \in 0..ECDSA.q, k \in 0..ECDSA.q :
          Return("sign", [hash |-> hash, priv_key |-> priv_key, k |-> k],
                 sign(ECDSA, hash, priv_key, k))

\* test_sign_verify: the signature that sign returned is verified under the
\* public key of the private key that signed
Verify_signed ==
    /\ op = "sign"
    /\ ret.tag = "Ok"
    /\ LET pub_key == generate_pub_key(ECDSA, args.priv_key)
       IN  Return("sign_verify",
                  [hash |-> args.hash, priv_key |-> args.priv_key,
                   k |-> args.k, pub_key |-> pub_key, signature |-> ret.val],
                  IF pub_key = Panic THEN Panic
                  ELSE verify(ECDSA, args.hash, pub_key, ret.val))

\* verify on a signature of any origin
Call_verify ==
    /\ op = "new"
    /\ ec = ECDSA.ec
    /\ \E hash \in 0..ECDSA.q, pub_key \in PointsOf[ec],
          r \in 0..(ECDSA.q - 1), s \in 0..(ECDSA.q - 1) :
          Return("verify",
                 [hash |-> hash, pub_key |-> pub_key, signature |-> <<r, s>>],
                 verify(ECDSA, hash, pub_key, <<r, s>>))

\* one bit of r or of s of an accepted signature is flipped, and the result
\* is verified for the same exponent and public key
Verify_tampered ==
    /\ op = "verify"
    /\ ret.tag = "Ok"
    /\ ret.val
    /\ \E i \in 0..MaxBit, part \in {"r", "s"} :
          LET r   == args.signature[1]
              s   == args.signature[2]
              sig == IF part = "r" THEN <<FlipBit(r, i), s>>
                                   ELSE <<r, FlipBit(s, i)>>
          IN  Return("verify_tampered",
                     [hash |-> args.hash, pub_key |-> args.pub_key,
                      signature |-> sig, original |-> args.signature],
                     verify(ECDSA, args.hash, args.pub_key, sig))

NextECDSA ==
    \/ Call_generate_pub_key
    \/ Call_sign
    \/ Verify_signed
    \/ Call_verify
    \/ Verify_tampered

SpecECDSA == InitECDSA /\ [][NextECDSA]_vars

Next == NextField \/ NextCurve \/ NextECDSA

Spec == Init /\ [][Next]_vars

----------------------------------------------------------------------------
(* Properties *)

Accepted == ret.tag = "Ok" /\ ret.val

\* the group law on operands that may be equal: add rejects equal operands,
\* so the sum of a point with itself is its double
GroupAdd(E, c, d) == IF c = d THEN double(E, c) ELSE add(E, c, d)

RECURSIVE RepeatAdd(_, _, _)
\* pt added to itself k times under the group law, Identity for k = 0
RepeatAdd(E, pt, k) ==
    IF k = 0 THEN Identity ELSE GroupAdd(E, RepeatAdd(E, pt, k - 1), pt)

\* 4a^3 + 27b^2 /= 0 (mod p)
NonSingular(E) == (4 * E.a * E.a * E.a + 27 * E.b * E.b) % E.p /= 0

\* C1: on the toy curve, for every private key d in [1,q), nonce k in [1,q)
\* and exponent e in [1,q-1], verifying the signature sign(e, d, k) under the
\* public key scalar_mul(G, d) returns true.
C1_SignVerifyRoundTrip ==
    (/\ op = "sign_verify"
     /\ args.priv_key \in 1..(ECDSA.q - 1)
     /\ args.k \in 1..(ECDSA.q - 1)
     /\ args.hash \in 1..(ECDSA.q - 1))
    => Accepted

\* C2: sign(e, d, k) with e, d, k < q and scalar_mul(G, k) a Coor point
\* returns (r, s) with r the x-coordinate of scalar_mul(G, k) and
\* s = (r*d + e) * k^(-1) mod q, that is s < q and s*k = r*d + e (mod q).
C2_SignValue ==
    (/\ op = "sign"
     /\ args.hash < ECDSA.q /\ args.priv_key < ECDSA.q /\ args.k < ECDSA.q
     /\ scalar_mul(ECDSA.ec, ECDSA.g, args.k).tag = "Coor")
    => /\ ret.tag = "Ok"
       /\ ret.val[1] = scalar_mul(ECDSA.ec, ECDSA.g, args.k).x
       /\ ret.val[2] < ECDSA.q
       /\ (ret.val[2] * args.k) % ECDSA.q
            = (ret.val[1] * args.priv_key + args.hash) % ECDSA.q

\* both signatures of a tampering step are the ones claim C3 is about: the
\* exponent is < q, the public key an on-curve Coor point, the accepted
\* signature has r and s in [1,q)
TamperCase ==
    /\ op = "verify_tampered"
    /\ args.hash < ECDSA.q
    /\ args.pub_key.tag = "Coor"
    /\ is_on_curve(ECDSA.ec, args.pub_key)
    /\ args.original[1] \in 1..(ECDSA.q - 1)
    /\ args.original[2] \in 1..(ECDSA.q - 1)
    /\ verify(ECDSA, args.hash, args.pub_key, args.original) = Ok(TRUE)

\* C3 as stated: after one bit of r or of s of an accepted signature is
\* flipped, verify with the same exponent and public key never returns true.
C3_TamperedRejected == TamperCase => ~Accepted

\* C3 amended: after one bit of s is flipped (r kept), verify returns true
\* exactly when the flipped s' is congruent to -s modulo q; this never happens
\* while s' stays in [1,q), so a flip of s that stays in range is never
\* accepted.
C3_TamperedS ==
    (TamperCase /\ args.signature[1] = args.original[1])
    => /\ Accepted <=> (args.signature[2] + args.original[2]) % ECDSA.q = 0
       /\ args.signature[2] < ECDSA.q => ~Accepted

\* C3 witness: a flip of s that stays in [1,q) was verified and rejected
C3_Witness ==
    /\ TamperCase
    /\ args.signature[1] = args.original[1]
    /\ args.signature[2] \in 1..(ECDSA.q - 1)
    /\ ret = Ok(FALSE)

\* the two scalar multiples verify adds, from the inputs of the call
VerifyU1a ==
    LET w == modpow(args.signature[2], ECDSA.q - 2, ECDSA.q)
    IN  ec_scalar_mul(ECDSA, ECDSA.g, (args.hash * w) % ECDSA.q)

VerifyU1b ==
    LET w == modpow(args.signature[2], ECDSA.q - 2, ECDSA.q)
    IN  ec_scalar_mul(ECDSA, args.pub_key, (args.signature[1] * w) % ECDSA.q)

\* two Coor points that are inverses of each other: their sum is Identity
InversePair(E, c, d) ==
    /\ c.tag = "Coor" /\ d.tag = "Coor"
    /\ c.x = d.x /\ (c.y + d.y) % E.p = 0

VerifyCase ==
    /\ op = "verify"
    /\ args.hash < ECDSA.q
    /\ args.pub_key.tag = "Coor"
    /\ is_on_curve(ECDSA.ec, args.pub_key)
    /\ args.signature[1] < ECDSA.q
    /\ args.signature[2] < ECDSA.q

\* C9: for e < q, an on-curve Coor public key and r, s in [0,q), verify ends
\* fatally exactly when scalar_mul(G, u1) and scalar_mul(Q, u2) are the same
\* point or sum to Identity; in every other case it returns a boolean.
C9_VerifyFatal ==
    VerifyCase
    => LET u1a == VerifyU1a
           u1b == VerifyU1b
       IN  /\ ret = Panic <=>
                (u1a = u1b \/ InversePair(ECDSA.ec, u1a, u1b))
           /\ ret /= Panic => ret \in {Ok(TRUE), Ok(FALSE)}

\* C9 witness: a verify with s /= 0 whose two multiples are distinct points
\* summing to Identity ended fatally
C9_Witness ==
    /\ VerifyCase
    /\ args.signature[2] /= 0
    /\ VerifyU1a /= VerifyU1b
    /\ InversePair(ECDSA.ec, VerifyU1a, VerifyU1b)
    /\ ret = Panic

\* C4: on a non-singular curve over a prime p >= 5, every Point returned by
\* add (distinct operands), double or scalar_mul for on-curve inputs with
\* coordinates in [0,p) is on the curve, and Identity is on the curve.
C4_CurveMembership ==
    (NonSingular(ec) /\ ec.p >= 5)
    => /\ is_on_curve(ec, Identity)
       /\ (op = "add" /\ args.c /= args.d /\ ret /= Panic)
            => is_on_curve(ec, ret)
       /\ (op \in {"double", "scalar_mul"} /\ ret /= Panic)
            => is_on_curve(ec, ret)

\* C5: on the toy curve, for every on-curve point (Identity included) and
\* every scalar k in 0..MaxScalar, scalar_mul(P, k) returns P added to itself
\* k times under the group law.
C5_ScalarMulIsRepeatedAdd ==
    (op = "scalar_mul" /\ ec = ToyCurve)
    => ret = RepeatAdd(ec, args.p, args.d)

\* C6: on the toy curve, add(P1, P2) = add(P2, P1) for every pair of
\* distinct on-curve points, Identity included.
C6_AddCommutes ==
    (op = "add" /\ ec = ToyCurve /\ args.c /= args.d)
    => /\ ret /= Panic
       /\ ret = add(ec, args.d, args.c)

\* C6 witness: two distinct Coor points of the toy curve were added to a
\* Coor point
C6_Witness ==
    /\ op = "add" /\ ec = ToyCurve
    /\ args.c.tag = "Coor" /\ args.d.tag = "Coor" /\ args.c.x /= args.d.x
    /\ ret.tag = "Coor"

\* C7: for every prime p and every c with 0 < c < p,
\* mult(c, inv_mult(c, p), p) = 1 and add(c, inv_add(c, p), p) = 0.
C7_FieldRoundTrip ==
    /\ (op = "inv_mult" /\ IsPrime(args.p) /\ 0 < args.c /\ args.c < args.p)
         => ret.tag = "Ok" /\ mult(args.c, ret.val, args.p) = 1
    /\ (op = "inv_add" /\ IsPrime(args.p) /\ 0 < args.c /\ args.c < args.p)
         => ret.tag = "Ok" /\ FiniteField_add(args.c, ret.val, args.p) = 0

\* C7 witness: the inverse of 4 modulo 11 (test_inv_mult) was computed as 3
C7_Witness ==
    /\ op = "inv_mult"
    /\ args = [c |-> 4, p |-> 11]
    /\ ret = Ok(3)

\* the slope of the chord through (x1, y1) and (x2, y2), x1 /= x2 mod p:
\* the s in [0,p) with s * (x2 - x1) = y2 - y1 (mod p)
Slope(E, x1, y1, x2, y2) ==
    CHOOSE s \in 0..(E.p - 1) :
        (s * (x2 + E.p - x1)) % E.p = (y2 + E.p - y1) % E.p

\* C8: on the toy curve, for distinct on-curve operands, add returns the
\* other operand when one is Identity, Identity when x1 = x2 and
\* y1 + y2 = 0 (mod p), and otherwise Coor(x3, y3) with
\* s = (y2 - y1)/(x2 - x1), x3 = s^2 - x1 - x2, y3 = s*(x1 - x3) - y1 (mod p).
C8_AddGroupLaw ==
    (op = "add" /\ ec = ToyCurve /\ args.c /= args.d)
    => IF args.c = Identity THEN ret = args.d
       ELSE IF args.d = Identity THEN ret = args.c
       ELSE IF args.c.x = args.d.x /\ (args.c.y + args.d.y) % ec.p = 0
            THEN ret = Identity
       ELSE LET x1 == args.c.x
                y1 == args.c.y
                x2 == args.d.x
                y2 == args.d.y
                s  == Slope(ec, x1, y1, x2, y2)
                x3 == (s * s + 2 * ec.p - x1 - x2) % ec.p
                y3 == (s * (x1 + ec.p - x3) + ec.p - y1) % ec.p
            IN  ret = Coor(x3, y3)

\* C8 witness: (6,3) + (5,1) = (10,6) on the toy curve (test_ec_point_addition)
C8_Witness ==
    /\ op = "add" /\ ec = ToyCurve
    /\ args = [c |-> Coor(6, 3), d |-> Coor(5, 1)]
    /\ ret = Coor(10, 6)

\* C10: for every prime p >= 3, inv_mult(0, p) = 0 and divide(c, 0, p) = 0,
\* so double of an on-curve Coor(x, 0), also when reached through
\* scalar_mul(P, 2), returns Coor((-2*x) mod p, 0): it neither fails nor
\* returns Identity.
C10_DoubleOfYZero ==
    ec.p >= 3
    => /\ inv_mult(0, ec.p) = 0
       /\ \A c \in 0..(ec.p - 1) : divide(c, 0, ec.p) = 0
       /\ (/\ \/ op = "double"
              \/ op = "scalar_mul" /\ args.d = 2
           /\ args.p.tag = "Coor"
           /\ args.p.y = 0)
          => ret = Coor((2 * (ec.p - args.p.x)) % ec.p, 0)

\* C10 witness: on y^2 = x^3 + 4x mod 5, scalar_mul((1,0), 2) returned (3,0)
C10_Witness ==
    /\ op = "scalar_mul"
    /\ ec = [a |-> 4, b |-> 0, p |-> 5]
    /\ args = [p |-> Coor(1, 0), d |-> 2]
    /\ ret = Coor(3, 0)

====
